---- MODULE Spec2Model ----
(***************************************************************************)
(* PersistentQueue (persistent_queue/persistent_queue.py): a FIFO queue    *)
(* kept in one file.  The file is a sequence of bytes: an 8-byte header    *)
(* (count, offset of the first live record) followed by records, each a    *)
(* 4-byte length and that many payload bytes.  Threads call put, get and   *)
(* peek; every step below is one stretch of a method between two points    *)
(* where another thread can observe or change shared state (a lock         *)
(* acquire is merged with the statement that follows it, a release with    *)
(* the statement before it).  The file is read and written only while     *)
(* _file_lock is held, so the writes of one locked block are one step; a   *)
(* kill of the process or a raising call inside the block leaves the file  *)
(* after any prefix of the block's writes (PutWrites, GetWrites).  The     *)
(* file cursor is not part of the state: every read and write is preceded  *)
(* by an absolute seek, and _update_length, _get_queue_top and             *)
(* _set_queue_top restore the cursor they found.                           *)
(***************************************************************************)
EXTENDS Naturals, Integers, Sequences, FiniteSets, TLC

\* ------------------------------------------------------------- bounds
NThreads == 2
MaxPuts == 3
MaxCrashes == 2
MaxSizeArg == 2
FlushLimitArg == 14
SmallChunk == 5

\* ---------------------------------------------------------- constants
START_OFFSET == 8
ByteBase == 256
FLUSH_LIMIT == 1048576
CHUNK_SIZE == 4096

Threads == 1..NThreads
Items == 1..MaxPuts
\* What loads raises on: no item encodes to the bytes read.
BadItem == 0

VARIABLES
  file,               \* the bytes of the file at self.filename
  _length,            \* self._length, the cached count
  maxsize,            \* self.maxsize
  _unfinished_tasks,  \* self._unfinished_tasks
  _file_lock,         \* RLock: [owner, count], owner 0 when free
  _get_lock,
  _put_lock,
  _get_event,         \* threading.Event flags
  _put_event,
  thread,             \* per thread: the running call, its arguments, locals and outcome
  nput,               \* history: puts begun (the item of a put is its number)
  appended,           \* history: items in the order put raised the count for them
  removed,            \* history: how many times get lowered the count
  putDone,            \* history: items of the puts that returned, in order
  gotSeq,             \* history: values returned by get, in order
  before,             \* history: before[b] = items whose put had returned when put(b) began
  failed,             \* history: items whose put raised or was killed after appending bytes, header not raised
  snap,               \* history: per thread, how the running call found the queue and what happened since
  lastPeeked,         \* history: value of the last peek since which no get removed an item (0: none)
  ncrash,             \* history: kills of the process so far
  reopened,           \* history: what the last kill interrupted, until the next call begins
  flush_limit,        \* self.flush_limit
  chunk_size,         \* flush's chunk_size
  temp_file,          \* the bytes of flush's temporary file (NoFile: there is none)
  copy,               \* the queue copy() returned: its file and its cached count (NoCopy: none yet)
  closed,             \* the open/closed flag
  saved,              \* history: the queue as the last flush, clear, copy, delete or close found it
  tasks,              \* the lock of self._all_tasks_done, task_done's local unfinished, and
                      \* history: the task_done calls that returned
  legacy              \* the queue of persistent_queue/__init__.py (push, pop, delete(items)):
                      \* its file, self.length, and history: its last call

vars == <<file, _length, maxsize, _unfinished_tasks, _file_lock, _get_lock,
          _put_lock, _get_event, _put_event, thread, nput, appended, removed,
          putDone, gotSeq,
          before, failed, snap, lastPeeked, ncrash, reopened,
          flush_limit, chunk_size, temp_file, copy, closed, saved, tasks, legacy>>

\* ------------------------------------------------------------ helpers

Min(a, b) == IF a < b THEN a ELSE b

\* struct.pack('I', n): four bytes, least significant first (native order of the hosts the tests run on).
Pack32(n) ==
  << n % ByteBase,
     (n \div ByteBase) % ByteBase,
     (n \div (ByteBase * ByteBase)) % ByteBase,
     (n \div (ByteBase * ByteBase * ByteBase)) % ByteBase >>

\* struct.unpack('I', b)[0]; -1 stands for struct.error on a short buffer.
Unpack32(b) ==
  IF Len(b) # 4 THEN -1
  ELSE b[1] + ByteBase * b[2] + ByteBase * ByteBase * b[3]
       + ByteBase * ByteBase * ByteBase * b[4]

\* file.read(n) at cursor p: up to n bytes, fewer at the end of the file.
ReadAt(f, p, n) == SubSeq(f, p + 1, Min(p + n, Len(f)))

\* file.write(b) at cursor p (modes r+b / w+b: not append mode, the write goes where the cursor is).
\* A write past the end fills the gap with zero bytes.
WriteAt(f, p, b) ==
  SubSeq(f, 1, Min(p, Len(f))) \o SubSeq(<<0, 0, 0, 0>>, 1, p - Len(f)) \o b
    \o SubSeq(f, p + Len(b) + 1, Len(f))

\* self._file.seek(0, 2): the cursor after it.
SeekEndM(f) == START_OFFSET
SeekEnd(f) == Len(f)

\* The codec handed to the constructor (pickle by default): an injective encoding
\* whose length depends on the value.
dumps(v) == IF v % 2 = 1 THEN <<v, v>> ELSE <<v>>
loads(b) == IF Len(b) >= 1 /\ b[1] \in Items /\ dumps(b[1]) = b
            THEN b[1]
            ELSE BadItem

\* _open_file in mode 'w+b': a truncated file holding the header (0, START_OFFSET).
NewFile == Pack32(0) \o Pack32(START_OFFSET)

\* __init__: self._length is read from the first header field.
HeaderLengthM(f) == Unpack32(ReadAt(f, START_OFFSET - 4, 4))
HeaderLength(f) == Unpack32(ReadAt(f, 0, 4))
\* _get_queue_top: the second header field.
_get_queue_topM(f) == START_OFFSET
_get_queue_top(f) == Unpack32(ReadAt(f, START_OFFSET - 4, 4))
\* _set_queue_top(top): the file after the write at START_OFFSET - 4.
_set_queue_topM(f, top) == WriteAt(f, START_OFFSET - 4, Pack32(START_OFFSET))
_set_queue_top(f, top) == WriteAt(f, START_OFFSET - 4, Pack32(top))
\* _update_length(length): the file after the write at 0.
WriteLength(f, length) == WriteAt(f, 0, Pack32(length))

\* put's test for a full queue.
IsFullM(m, len) == m > 0 /\ len > m
IsFull(m, len) == m > 0 /\ len + 1 > m

\* _peek's test for an empty queue.
IsEmptyM(len) == len < 0
IsEmpty(len) == len < 1

\* __init__: a negative maxsize becomes 0.
NormMaxsize(m) == IF m < 0 THEN 0 ELSE m

\* RLock
Free == [owner |-> 0, count |-> 0]
CanAcquire(l, t) == l.owner = 0 \/ l.owner = t
Acquire(l, t) == [owner |-> t, count |-> l.count + 1]
Release(l) == IF l.count <= 1 THEN Free ELSE [l EXCEPT !.count = @ - 1]

\* _peek's read of the record at the head: length, payload, decoded item and the
\* cursor after it.  ok is FALSE where the code raises (struct.error on a short
\* length field, the codec's error on bytes it cannot decode).
ReadRecordM(f, top) ==
  LET lenb == ReadAt(f, top, 4)
      n == Unpack32(lenb)
      it == IF n < 0 THEN BadItem ELSE loads(ReadAt(f, top + 4, n))
  IN [ok |-> n >= 0 /\ it # BadItem, item |-> it, next |-> top]
ReadRecord(f, top) ==
  LET lenb == ReadAt(f, top, 4)
      n == Unpack32(lenb)
      payload == IF n < 0 THEN <<>> ELSE ReadAt(f, top + 4, n)
      it == loads(payload)
  IN [ok |-> n >= 0 /\ it # BadItem,
      item |-> it,
      next |-> IF n < 0 THEN top + Len(lenb) ELSE top + 4 + Len(payload)]

\* What n successive get() calls on a queue freshly opened on file f return:
\* the decoded items, ending with BadItem where a get would raise.
RECURSIVE DrainFrom(_, _, _)
DrainFrom(f, top, n) ==
  IF n <= 0 THEN <<>>
  ELSE LET r == ReadRecord(f, top)
       IN IF r.ok THEN <<r.item>> \o DrainFrom(f, r.next, n - 1)
          ELSE <<BadItem>>
Drain(f) == DrainFrom(f, _get_queue_top(f), HeaderLength(f))

Idle == [pc |-> "idle", op |-> "none", block |-> FALSE, timeout |-> FALSE,
         item |-> 0, data |-> <<>>, queue_top |-> 0, result |-> "none"]

\* What the history keeps of a running call: whether the call found the queue at
\* its limit, whether a step of the call changed file, count or unfinished tasks,
\* and whether another thread's get or put acted since the call began.
NoSnapshot == [limit |-> FALSE, self |-> FALSE, other |-> FALSE]

NotReopened == [op |-> "none", pc |-> "none", writes |-> 0, item |-> 0,
                drain |-> <<>>, nget |-> 0, fresh |-> FALSE]

\* put's locked block: the file after each of its writes, in order: the length
\* field at the end of the file, the payload after it, the raised count.
PutWrites(f, data, length) ==
  LET end == SeekEnd(f)
      w1 == WriteAt(f, end, Pack32(Len(data)))
      w2 == WriteAt(w1, end + 4, data)
      w3 == WriteLength(w2, length + 1)
  IN <<w1, w2, w3>>

\* get's locked block: the file after _set_queue_top(queue_top) and after
\* _update_length(length - 1).
GetWrites(f, queue_top, length) ==
  LET w1 == _set_queue_top(f, queue_top)
      w2 == WriteLength(w1, length - 1)
  IN <<w1, w2>>

\* The file after the first k writes of a block.
After(f, writes, k) == IF k = 0 THEN f ELSE writes[k]

\* block and timeout as a call can pass them (timeout: "is not None"); put and
\* _peek ignore timeout when block is false.
CallArgs == {<<FALSE, FALSE>>, <<TRUE, FALSE>>, <<TRUE, TRUE>>}

\* No file at a path.
\* self._all_tasks_done is free, no task_done is running and none has returned.
NoTasks == [owner |-> 0, unfinished |-> [t \in Threads |-> 0], done |-> 0]
NoFile == <<-1>>
\* PersistentQueue(filename) of persistent_queue/__init__.py on a path that holds
\* no file: the file with the header (0, START_OFFSET), self.length read from it;
\* history: the items pushed, the last call, its argument, how it found the
\* queue, how it ended and what it returned.
NewLegacy == [file |-> NewFile, length |-> HeaderLength(NewFile), npush |-> 0,
              op |-> "none", items |-> 0,
              found |-> [file |-> NewFile, length |-> 0, drain |-> <<>>],
              result |-> "none", data |-> 0]
NoCopy == [file |-> NoFile, length |-> 0, got |-> <<>>]
NotSaved == [op |-> "none", file |-> NoFile, head |-> 0, drain |-> <<>>, length |-> 0,
             removed |-> 0, nput |-> 0, nget |-> 0, nfailed |-> 0]

\* -------------------------------------------------------------- Init
\* PersistentQueue(filename, maxsize) on a path that holds no file.
InitQueue ==
  /\ file = NewFile
  /\ _length = HeaderLength(NewFile)
  /\ maxsize \in {NormMaxsize(m) : m \in -1..MaxSizeArg}
  /\ _unfinished_tasks = 0
  /\ _file_lock = Free
  /\ _get_lock = Free
  /\ _put_lock = Free
  /\ _get_event = FALSE
  /\ _put_event = FALSE
  /\ thread = [t \in Threads |-> Idle]
  /\ nput = 0
  /\ appended = <<>>
  /\ removed = 0
  /\ putDone = <<>>
  /\ gotSeq = <<>>
  /\ before = [i \in Items |-> {}]
  /\ failed = {}
  /\ snap = [t \in Threads |-> NoSnapshot]
  /\ lastPeeked = 0
  /\ ncrash = 0
  /\ reopened = NotReopened
  /\ temp_file = NoFile
  /\ copy = NoCopy
  /\ closed = FALSE
  /\ saved = NotSaved
  /\ tasks = NoTasks
  /\ legacy = NewLegacy

\* flush_limit left at its default.
Init ==
  /\ InitQueue
  /\ flush_limit = FLUSH_LIMIT
  /\ chunk_size = CHUNK_SIZE

\* What put, get and peek leave alone.
ext == <<flush_limit, chunk_size, temp_file, copy, closed, saved, tasks, legacy>>

history == <<nput, appended, removed, putDone, gotSeq, before, failed, lastPeeked,
             ncrash, reopened>>
locks == <<_file_lock, _get_lock, _put_lock>>
events == <<_get_event, _put_event>>
mem == <<_length, maxsize, _unfinished_tasks>>

Set(t, r) == thread' = [thread EXCEPT ![t] = r]
At(t, label) == thread[t].pc = label

\* A call begins.
Begin(t, r) ==
  /\ Set(t, r)
  /\ reopened' = [reopened EXCEPT !.fresh = FALSE]

\* A call ends: returns (result "ok") or raises.
End(t, res) == Set(t, [thread[t] EXCEPT !.pc = "done", !.result = res])

\* The caller has the outcome and is ready for its next call.
Finish(t) ==
  /\ At(t, "done")
  /\ Set(t, Idle)
  /\ UNCHANGED <<file, mem, locks, events, history>>

\* ---------------------------------------------------------------- put
\* put(item, block, timeout) is called.
PutCall(t) ==
  /\ At(t, "idle")
  /\ nput < MaxPuts
  /\ \E a \in CallArgs :
       Begin(t, [Idle EXCEPT !.pc = "put_lock", !.op = "put", !.block = a[1],
                             !.timeout = a[2], !.item = nput + 1])
  /\ nput' = nput + 1
  /\ before' = [before EXCEPT ![nput + 1] = {putDone[i] : i \in 1..Len(putDone)}]
  /\ UNCHANGED <<file, mem, locks, events, appended, removed, putDone, gotSeq,
                 failed, lastPeeked, ncrash>>

\* with self._put_lock: self._get_event.clear()
PutLockM(t) ==
  /\ At(t, "put_lock")
  /\ _get_event' = FALSE
  /\ Set(t, [thread[t] EXCEPT !.pc = "put_check"])
  /\ UNCHANGED <<file, mem, locks, _put_event, history>>
PutLock(t) ==
  /\ At(t, "put_lock")
  /\ CanAcquire(_put_lock, t)
  /\ _put_lock' = Acquire(_put_lock, t)
  /\ _get_event' = FALSE
  /\ Set(t, [thread[t] EXCEPT !.pc = "put_check"])
  /\ UNCHANGED <<file, mem, _file_lock, _get_lock, _put_event, history>>

\* if self.maxsize > 0 and self._length + 1 > self.maxsize: raise Full when not
\* block, else wait; otherwise data = self.dumps(item)
PutCheck(t) ==
  /\ At(t, "put_check")
  /\ IF IsFull(maxsize, _length)
     THEN IF thread[t].block
          THEN /\ Set(t, [thread[t] EXCEPT !.pc = "put_wait"])
               /\ UNCHANGED _put_lock
          ELSE /\ End(t, "Full")
               /\ _put_lock' = Release(_put_lock)
     ELSE /\ Set(t, [thread[t] EXCEPT !.pc = "put_file", !.data = dumps(thread[t].item)])
          /\ UNCHANGED _put_lock
  /\ UNCHANGED <<file, mem, _file_lock, _get_lock, events, history>>

\* self._get_event.wait(timeout) returns True; self._get_event.clear(); data = self.dumps(item)
PutWakeM(t) ==
  /\ At(t, "put_wait")
  /\ _get_event' = FALSE
  /\ Set(t, [thread[t] EXCEPT !.pc = "put_file", !.data = dumps(thread[t].item)])
  /\ UNCHANGED <<file, mem, locks, _put_event, history>>
PutWake(t) ==
  /\ At(t, "put_wait")
  /\ _get_event
  /\ _get_event' = FALSE
  /\ Set(t, [thread[t] EXCEPT !.pc = "put_file", !.data = dumps(thread[t].item)])
  /\ UNCHANGED <<file, mem, locks, _put_event, history>>

\* self._get_event.wait(timeout) is False: the timeout expired with the event unset; raise Full
PutTimeout(t) ==
  /\ At(t, "put_wait")
  /\ thread[t].timeout
  /\ ~_get_event
  /\ End(t, "Full")
  /\ _put_lock' = Release(_put_lock)
  /\ UNCHANGED <<file, mem, _file_lock, _get_lock, events, history>>

\* with self._file_lock: seek(0, 2); write the length field; write data; flush;
\* fsync; self._update_length(self._length + 1)
PutFile(t) ==
  /\ At(t, "put_file")
  /\ CanAcquire(_file_lock, t)
  /\ _file_lock' = Acquire(_file_lock, t)
  /\ file' = After(file, PutWrites(file, thread[t].data, _length), 3)
  /\ _length' = _length + 1
  /\ appended' = Append(appended, thread[t].item)
  /\ Set(t, [thread[t] EXCEPT !.pc = "put_tasks"])
  /\ UNCHANGED <<maxsize, _unfinished_tasks, _get_lock, _put_lock, events, nput,
                 removed, putDone, gotSeq, before, failed, lastPeeked, ncrash, reopened>>

\* self._unfinished_tasks += 1, and the file lock is released
PutTasks(t) ==
  /\ At(t, "put_tasks")
  /\ _unfinished_tasks' = _unfinished_tasks + 1
  /\ _file_lock' = Release(_file_lock)
  /\ Set(t, [thread[t] EXCEPT !.pc = "put_set"])
  /\ UNCHANGED <<file, _length, maxsize, _get_lock, _put_lock, events, history>>

\* self._put_event.set(); the put lock is released and put returns
PutReturn(t) ==
  /\ At(t, "put_set")
  /\ _put_event' = TRUE
  /\ _put_lock' = Release(_put_lock)
  /\ End(t, "ok")
  /\ putDone' = Append(putDone, thread[t].item)
  /\ UNCHANGED <<file, mem, _file_lock, _get_lock, _get_event, nput, appended,
                 removed, gotSeq, before, failed, lastPeeked, ncrash, reopened>>

\* ------------------------------------------------------- get and peek
\* get(block, timeout) is called.
GetCall(t) ==
  /\ At(t, "idle")
  /\ \E a \in CallArgs :
       Begin(t, [Idle EXCEPT !.pc = "get_lock", !.op = "get", !.block = a[1],
                             !.timeout = a[2]])
  /\ UNCHANGED <<file, mem, locks, events, nput, appended, removed, putDone, gotSeq,
                 before, failed, lastPeeked, ncrash>>

\* peek(block, timeout) is called.
PeekCall(t) ==
  /\ At(t, "idle")
  /\ \E a \in CallArgs :
       Begin(t, [Idle EXCEPT !.pc = "peek_lock", !.op = "peek", !.block = a[1],
                             !.timeout = a[2]])
  /\ UNCHANGED <<file, mem, locks, events, nput, appended, removed, putDone, gotSeq,
                 before, failed, lastPeeked, ncrash>>

\* get: with self._get_lock, then _peek: with self._get_lock: self._put_event.clear()
GetLock(t) ==
  /\ At(t, "get_lock")
  /\ CanAcquire(_get_lock, t)
  /\ _get_lock' = Acquire(Acquire(_get_lock, t), t)
  /\ _put_event' = FALSE
  /\ Set(t, [thread[t] EXCEPT !.pc = "peek_check"])
  /\ UNCHANGED <<file, mem, _file_lock, _put_lock, _get_event, history>>

\* peek: _peek: with self._get_lock: self._put_event.clear()
PeekLock(t) ==
  /\ At(t, "peek_lock")
  /\ CanAcquire(_get_lock, t)
  /\ _get_lock' = Acquire(_get_lock, t)
  /\ _put_event' = FALSE
  /\ Set(t, [thread[t] EXCEPT !.pc = "peek_check"])
  /\ UNCHANGED <<file, mem, _file_lock, _put_lock, _get_event, history>>

\* _peek: if self._length < 1: raise Empty when not block, else wait
PeekCheck(t) ==
  /\ At(t, "peek_check")
  /\ IF IsEmpty(_length)
     THEN IF thread[t].block
          THEN /\ Set(t, [thread[t] EXCEPT !.pc = "peek_wait"])
               /\ UNCHANGED _get_lock
          ELSE /\ End(t, "Empty")
               /\ _get_lock' = Free
     ELSE /\ Set(t, [thread[t] EXCEPT !.pc = "peek_file"])
          /\ UNCHANGED _get_lock
  /\ UNCHANGED <<file, mem, _file_lock, _put_lock, events, history>>

\* _peek: self._put_event.wait(timeout) returns True; self._put_event.clear()
PeekWake(t) ==
  /\ At(t, "peek_wait")
  /\ _put_event
  /\ _put_event' = FALSE
  /\ Set(t, [thread[t] EXCEPT !.pc = "peek_file"])
  /\ UNCHANGED <<file, mem, locks, _get_event, history>>

\* _peek: self._put_event.wait(timeout) is False: raise Empty
PeekTimeout(t) ==
  /\ At(t, "peek_wait")
  /\ thread[t].timeout
  /\ ~_put_event
  /\ End(t, "Empty")
  /\ _get_lock' = Free
  /\ UNCHANGED <<file, mem, _file_lock, _put_lock, events, history>>

\* _peek: with self._file_lock: seek to the head, read the length and the payload,
\* loads, queue_top = tell(); peek returns the item, get goes on.  An exception
\* (short length field, undecodable payload) leaves every with block.
PeekRead(t) ==
  /\ At(t, "peek_file")
  /\ CanAcquire(_file_lock, t)
  /\ \E queue_top \in {_get_queue_top(file)} : \E r \in {ReadRecord(file, queue_top)} :
        IF ~r.ok
        THEN /\ End(t, "Error")
             /\ _get_lock' = Free
             /\ UNCHANGED lastPeeked
        ELSE IF thread[t].op = "peek"
        THEN /\ Set(t, [thread[t] EXCEPT !.pc = "done", !.result = "ok",
                                         !.item = r.item, !.queue_top = r.next])
             /\ _get_lock' = Release(_get_lock)
             /\ lastPeeked' = r.item
        ELSE /\ Set(t, [thread[t] EXCEPT !.pc = "get_file", !.item = r.item,
                                         !.queue_top = r.next])
             /\ _get_lock' = Release(_get_lock)
             /\ UNCHANGED lastPeeked
  /\ UNCHANGED <<file, mem, _file_lock, _put_lock, events, nput, appended, removed,
                 putDone, gotSeq, before, failed, ncrash, reopened>>

\* get: with self._file_lock: self._set_queue_top(queue_top);
\* self._update_length(self._length - 1), where struct.pack raises on a negative count
GetFile(t) ==
  /\ At(t, "get_file")
  /\ CanAcquire(_file_lock, t)
  /\ lastPeeked' = 0
  /\ IF _length - 1 < 0
     THEN /\ file' = After(file, GetWrites(file, thread[t].queue_top, _length), 1)
          /\ End(t, "Error")
          /\ _get_lock' = Free
          /\ UNCHANGED <<_file_lock, _length, removed>>
     ELSE /\ file' = After(file, GetWrites(file, thread[t].queue_top, _length), 2)
          /\ _length' = _length - 1
          /\ removed' = removed + 1
          /\ _file_lock' = Acquire(_file_lock, t)
          /\ Set(t, [thread[t] EXCEPT !.pc = "get_set"])
          /\ UNCHANGED _get_lock
  /\ UNCHANGED <<maxsize, _unfinished_tasks, _put_lock, events, nput, appended,
                 putDone, gotSeq, before, failed, ncrash, reopened>>

\* get: self._get_event.set(); return data (both locks are released)
GetReturn(t) ==
  /\ At(t, "get_set")
  /\ _get_event' = TRUE
  /\ _file_lock' = Release(_file_lock)
  /\ _get_lock' = Release(_get_lock)
  /\ End(t, "ok")
  /\ gotSeq' = Append(gotSeq, thread[t].item)
  /\ UNCHANGED <<file, mem, _put_lock, _put_event, nput, appended, removed, putDone,
                 before, failed, lastPeeked, ncrash, reopened>>

\* ------------------------------------------------- failures and kills
\* put: os.fsync raises after the record was written (test_half_write_os_fsync), or
\* _update_length raises before it writes (test_half_write_update_length): the
\* length field and the payload are in the file, the count is not raised.
PutFail(t) ==
  /\ At(t, "put_file")
  /\ CanAcquire(_file_lock, t)
  /\ file' = After(file, PutWrites(file, thread[t].data, _length), 2)
  /\ _put_lock' = Release(_put_lock)
  /\ End(t, "Error")
  /\ failed' = failed \cup {thread[t].item}
  /\ UNCHANGED <<mem, _file_lock, _get_lock, events, nput, appended, removed,
                 putDone, gotSeq, before, lastPeeked, ncrash, reopened>>

\* How many writes of its locked block thread t can have made when it is stopped.
MaxWrites(t) ==
  IF ~CanAcquire(_file_lock, t) THEN 0
  ELSE IF At(t, "put_file") THEN 3
  ELSE IF At(t, "get_file") /\ _length >= 1 THEN 2
  ELSE IF At(t, "get_file") THEN 1
  ELSE 0

BlockWrites(t) ==
  IF At(t, "put_file") THEN PutWrites(file, thread[t].data, _length)
  ELSE GetWrites(file, thread[t].queue_top, _length)

\* The process is killed while thread t is where it is, k writes into its locked
\* block, and a new PersistentQueue is constructed on the same path: the file
\* keeps every byte written so far (buffering=0), __init__ reads the count from
\* the header, everything in memory starts afresh.
Crash(t) ==
  /\ ncrash < MaxCrashes
  /\ ncrash' = ncrash + 1
  /\ \E k \in 0..MaxWrites(t) :
       /\ file' = After(file, BlockWrites(t), k)
       /\ reopened' = [op |-> thread[t].op, pc |-> thread[t].pc, writes |-> k,
                       item |-> thread[t].item, drain |-> Drain(file),
                       nget |-> Len(gotSeq), fresh |-> TRUE]
       /\ failed' = IF At(t, "put_file") /\ k \in {1, 2}
                    THEN failed \cup {thread[t].item} ELSE failed
  /\ _length' = HeaderLength(file')
  /\ _unfinished_tasks' = 0
  /\ _file_lock' = Free
  /\ _get_lock' = Free
  /\ _put_lock' = Free
  /\ _get_event' = FALSE
  /\ _put_event' = FALSE
  /\ thread' = [u \in Threads |-> Idle]
  /\ lastPeeked' = 0
  /\ UNCHANGED <<maxsize, nput, appended, removed, putDone, gotSeq, before>>

\* ------------------------------------------------------------ history
Durable == <<file, _length, _unfinished_tasks>>
Running(r) == r.pc \notin {"idle", "done"}

\* A step of thread v's get (put) that lowers (raises) the count or sets the event.
GetActs(v) == thread[v].pc \in {"get_file", "get_set"} /\ thread'[v].pc # thread[v].pc
PutActs(v) == thread[v].pc \in {"put_file", "put_tasks", "put_set"}
              /\ thread'[v].pc # thread[v].pc

\* snap follows every step: a call that begins notes whether it finds the queue at
\* its limit (full for a put, empty for a get or peek); while it runs, it notes
\* whether a step of its own changed the file, the count or the unfinished tasks,
\* and whether another thread's get (for a put) or another thread's put (for a get
\* or peek) acted; it is forgotten when the caller goes on.
AtLimit(op) == IF op = "put" THEN maxsize > 0 /\ _length = maxsize ELSE _length = 0

Track ==
  snap' = [u \in Threads |->
    IF thread'[u].pc = "idle" THEN NoSnapshot
    ELSE IF thread[u].pc = "idle" THEN [NoSnapshot EXCEPT !.limit = AtLimit(thread'[u].op)]
    ELSE IF ~Running(thread[u]) THEN snap[u]
    ELSE [snap[u] EXCEPT
            !.self = @ \/ (thread'[u] # thread[u] /\ Durable' # Durable),
            !.other = @ \/ \E v \in Threads \ {u} :
                        IF thread[u].op = "put" THEN GetActs(v) ELSE PutActs(v)]]

\* ---------------------------------------------------- specifications
Call(t) == PutCall(t) \/ GetCall(t) \/ PeekCall(t)

\* The steps of a running call that a single thread can take.
Step(t) ==
  \/ PutLock(t) \/ PutCheck(t) \/ PutTimeout(t) \/ PutFile(t) \/ PutTasks(t)
  \/ PutReturn(t)
  \/ GetLock(t) \/ PeekLock(t) \/ PeekCheck(t) \/ PeekTimeout(t) \/ PeekRead(t)
  \/ GetFile(t) \/ GetReturn(t)

\* The steps that need another thread's put or get to have set the event.
Wake(t) == PutWake(t) \/ PeekWake(t)

\* Threads calling put, get and peek concurrently.
ThreadNext == \E t \in Threads : Call(t) \/ Step(t) \/ Wake(t) \/ Finish(t)
Next == ThreadNext /\ Track /\ UNCHANGED ext
Spec == Init /\ [][Next]_vars

\* One thread calling put, get and peek.
NextSeq == (Call(1) \/ Step(1) \/ Finish(1)) /\ Track /\ UNCHANGED ext
SpecSeq == Init /\ [][NextSeq]_vars

\* One thread, with failing puts and kills of the process followed by a reopen.
NextCrash ==
  (Call(1) \/ Step(1) \/ Finish(1) \/ PutFail(1) \/ Crash(1)) /\ Track /\ UNCHANGED ext
SpecCrash == Init /\ [][NextCrash]_vars

\* A producer thread and a consumer thread, each scheduled again and again: a
\* thread that can take a step of its call, or can wake from its wait,
\* eventually does.
Producers == {t \in Threads : t % 2 = 1}
Consumers == Threads \ Producers
Produce(t) ==
  \/ PutCall(t) \/ PutLock(t) \/ PutCheck(t) \/ PutWake(t) \/ PutTimeout(t)
  \/ PutFile(t) \/ PutTasks(t) \/ PutReturn(t) \/ Finish(t)
Consume(t) ==
  \/ GetCall(t) \/ GetLock(t) \/ PeekCheck(t) \/ PeekWake(t) \/ PeekTimeout(t)
  \/ PeekRead(t) \/ GetFile(t) \/ GetReturn(t) \/ Finish(t)
NextLive ==
  /\ \/ \E t \in Producers : Produce(t)
     \/ \E t \in Consumers : Consume(t)
  /\ Track
  /\ UNCHANGED ext
Scheduled == \A t \in Threads : WF_vars((Step(t) \/ Wake(t)) /\ Track /\ UNCHANGED ext)
SpecLive == Init /\ [][NextLive]_vars /\ Scheduled

\* ------------------------------------ delete, clear, flush and copy
\* How a flush, clear, copy, delete or close finds the queue.
Saved(op) == [op |-> op, file |-> file, head |-> _get_queue_top(file),
              drain |-> Drain(file), length |-> _length, removed |-> removed,
              nput |-> Len(putDone), nget |-> Len(gotSeq),
              nfailed |-> Cardinality(failed)]
\* The caller goes on: the bytes of the file as the call found it are forgotten.
Forget == saved' = [saved EXCEPT !.file = NoFile]

\* delete() is called.
DeleteCall(t) ==
  /\ At(t, "idle")
  /\ Begin(t, [Idle EXCEPT !.pc = "delete_check", !.op = "delete"])
  /\ UNCHANGED <<file, mem, locks, events, nput, appended, removed, putDone, gotSeq,
                 before, failed, lastPeeked, ncrash, ext>>

\* delete: if self._length < 1: return
DeleteCheck(t) ==
  /\ At(t, "delete_check")
  /\ IF _length < 1
     THEN End(t, "ok")
     ELSE Set(t, [thread[t] EXCEPT !.pc = "delete_file"])
  /\ UNCHANGED <<file, mem, locks, events, history, ext>>

\* delete's locked block: the head offset after the record at the head (its length
\* field read, its payload skipped by a relative seek), then the lowered count.
DeleteWritesM(f, length) ==
  LET top == _get_queue_top(f)
  IN GetWrites(f, top + 4, length)
DeleteWrites(f, length) ==
  LET top == _get_queue_top(f)
      n == Unpack32(ReadAt(f, top, 4))
  IN GetWrites(f, top + 4 + n, length)

\* delete: with self._file_lock, self._get_lock: the file lock is acquired first
\* and held while the get lock is requested.
DeleteLock(t) ==
  /\ At(t, "delete_file")
  /\ CanAcquire(_file_lock, t)
  /\ _file_lock' = Acquire(_file_lock, t)
  /\ Set(t, [thread[t] EXCEPT !.pc = "delete_get_lock"])
  /\ UNCHANGED <<file, mem, _get_lock, _put_lock, events, history, ext>>

\* delete: with self._file_lock, self._get_lock: read the length at the head, seek
\* past the payload, self._set_queue_top(tell()), self._update_length(length - 1);
\* struct.error on a short length field, and in struct.pack on a negative count.
DeleteFile(t) ==
  /\ At(t, "delete_get_lock")
  /\ CanAcquire(_get_lock, t)
  /\ _file_lock' = Release(_file_lock)
  /\ \E n \in {Unpack32(ReadAt(file, _get_queue_top(file), 4))} :
       IF n < 0
       THEN /\ End(t, "Error")
            /\ UNCHANGED <<file, _length, removed, lastPeeked>>
       ELSE IF _length - 1 < 0
       THEN /\ file' = After(file, DeleteWrites(file, _length), 1)
            /\ End(t, "Error")
            /\ lastPeeked' = 0
            /\ UNCHANGED <<_length, removed>>
       ELSE /\ file' = After(file, DeleteWrites(file, _length), 2)
            /\ _length' = _length - 1
            /\ removed' = removed + 1
            /\ lastPeeked' = 0
            /\ End(t, "ok")
  /\ UNCHANGED <<maxsize, _unfinished_tasks, _get_lock, _put_lock, events, nput,
                 appended, putDone, gotSeq, before, failed, ncrash, reopened, ext>>

\* clear() is called.
ClearCall(t) ==
  /\ At(t, "idle")
  /\ Begin(t, [Idle EXCEPT !.pc = "clear_file", !.op = "clear"])
  /\ saved' = Saved("clear")
  /\ UNCHANGED <<file, mem, locks, events, nput, appended, removed, putDone, gotSeq,
                 before, failed, lastPeeked, ncrash, flush_limit, chunk_size,
                 temp_file, copy, closed, tasks, legacy>>

\* clear: with self._file_lock, self._get_lock: the file lock is acquired first
\* and held while the get lock is requested.
ClearLock(t) ==
  /\ At(t, "clear_file")
  /\ CanAcquire(_file_lock, t)
  /\ _file_lock' = Acquire(_file_lock, t)
  /\ Set(t, [thread[t] EXCEPT !.pc = "clear_get_lock"])
  /\ UNCHANGED <<file, mem, _get_lock, _put_lock, events, history, ext>>

\* clear: with self._file_lock, self._get_lock: close the file, open it again with
\* mode 'w+b' (truncated, new header), self._length = 0
ClearFileM(t) ==
  /\ At(t, "clear_get_lock")
  /\ CanAcquire(_get_lock, t)
  /\ _file_lock' = Release(_file_lock)
  /\ _length' = 0
  /\ appended' = <<>>
  /\ removed' = 0
  /\ lastPeeked' = 0
  /\ End(t, "ok")
  /\ UNCHANGED <<file, maxsize, _unfinished_tasks, _get_lock, _put_lock, events, nput,
                 putDone, gotSeq, before, failed, ncrash, reopened, ext>>
ClearFile(t) ==
  /\ At(t, "clear_get_lock")
  /\ CanAcquire(_get_lock, t)
  /\ _file_lock' = Release(_file_lock)
  /\ file' = NewFile
  /\ _length' = 0
  /\ appended' = <<>>
  /\ removed' = 0
  /\ lastPeeked' = 0
  /\ End(t, "ok")
  /\ UNCHANGED <<maxsize, _unfinished_tasks, _get_lock, _put_lock, events, nput,
                 putDone, gotSeq, before, failed, ncrash, reopened, ext>>

\* flush's test of the head offset against flush_limit.
BelowLimitM(pos, limit) == pos < limit - START_OFFSET
BelowLimit(pos, limit) == pos < limit

\* flush's copy loop: while bytes_read < end - start: bytes_read += chunk_size;
\* new_file.write(self._file.read(bytes_read)).  cursor is the position of the
\* old file, total is end - start; a read returns what the file has left.
RECURSIVE CopyChunksM(_, _, _, _, _)
CopyChunksM(f, cursor, bytes_read, total, chunk) ==
  IF bytes_read + chunk < total
  THEN LET data == ReadAt(f, cursor, chunk)
       IN data \o CopyChunksM(f, cursor + Len(data), bytes_read + chunk, total, chunk)
  ELSE <<>>
RECURSIVE CopyChunks(_, _, _, _, _)
CopyChunks(f, cursor, bytes_read, total, chunk) ==
  IF bytes_read < total
  THEN LET data == ReadAt(f, cursor, bytes_read + chunk)
       IN data \o CopyChunks(f, cursor + Len(data), bytes_read + chunk, total, chunk)
  ELSE <<>>

\* flush() is called.
FlushCall(t) ==
  /\ At(t, "idle")
  /\ Begin(t, [Idle EXCEPT !.pc = "flush_check", !.op = "flush"])
  /\ saved' = Saved("flush")
  /\ UNCHANGED <<file, mem, locks, events, nput, appended, removed, putDone, gotSeq,
                 before, failed, lastPeeked, ncrash, flush_limit, chunk_size,
                 temp_file, copy, closed, tasks, legacy>>

\* flush: with self._file_lock: pos = self._get_queue_top(); return when
\* pos < self.flush_limit, else open the temporary file (mode 'w+b': empty)
FlushCheck(t) ==
  /\ At(t, "flush_check")
  /\ CanAcquire(_file_lock, t)
  /\ IF BelowLimit(_get_queue_top(file), flush_limit)
     THEN /\ End(t, "ok")
          /\ UNCHANGED temp_file
     ELSE /\ Set(t, [thread[t] EXCEPT !.pc = "flush_copy"])
          /\ temp_file' = <<>>
  /\ UNCHANGED <<file, mem, locks, events, history, flush_limit, chunk_size, copy,
                 closed, saved, tasks, legacy>>

\* flush: with self._file_lock, self._get_lock: the file lock is acquired first
\* and held while the get lock is requested.
FlushLock(t) ==
  /\ At(t, "flush_copy")
  /\ CanAcquire(_file_lock, t)
  /\ _file_lock' = Acquire(_file_lock, t)
  /\ Set(t, [thread[t] EXCEPT !.pc = "flush_get_lock"])
  /\ UNCHANGED <<file, mem, _get_lock, _put_lock, events, history, ext>>

\* flush: with self._file_lock, self._get_lock: start = self._get_queue_top(),
\* end = the end of the file; the header (self._length, START_OFFSET) and the
\* bytes from start are written to the temporary file; both files are closed
FlushCopy(t) ==
  /\ At(t, "flush_get_lock")
  /\ CanAcquire(_get_lock, t)
  /\ _get_lock' = Acquire(_get_lock, t)
  /\ \E start \in {_get_queue_top(file)} :
       temp_file' = Pack32(_length) \o Pack32(START_OFFSET)
                    \o CopyChunks(file, start, 0, Len(file) - start, chunk_size)
  /\ Set(t, [thread[t] EXCEPT !.pc = "flush_remove"])
  /\ UNCHANGED <<file, mem, _file_lock, _put_lock, events, history, flush_limit, chunk_size,
                 copy, closed, saved, tasks, legacy>>

\* flush: os.remove(self.filename)
FlushRemove(t) ==
  /\ At(t, "flush_remove")
  /\ file' = NoFile
  /\ Set(t, [thread[t] EXCEPT !.pc = "flush_rename"])
  /\ UNCHANGED <<mem, locks, events, history, ext>>

\* flush: os.rename(temp_filename, self.filename); self._file = self._open_file();
\* both locks are released and flush returns
FlushRename(t) ==
  /\ At(t, "flush_rename")
  /\ file' = temp_file
  /\ temp_file' = NoFile
  /\ _file_lock' = Release(_file_lock)
  /\ _get_lock' = Release(_get_lock)
  /\ End(t, "ok")
  /\ UNCHANGED <<mem, _put_lock, events, history, flush_limit, chunk_size, copy,
                 closed, saved, tasks, legacy>>

\* The process is killed while thread t is inside flush, and a new PersistentQueue
\* is constructed on the same path: _open_file opens the file with 'r+b' when
\* there is one at the path and creates it with 'w+b' and an empty header when
\* there is none; __init__ reads the count from the header.  The temporary file
\* has another name and stays where it is.
FlushKill(t) ==
  /\ thread[t].pc \in {"flush_check", "flush_copy", "flush_get_lock", "flush_remove",
                      "flush_rename"}
  /\ ncrash < MaxCrashes
  /\ ncrash' = ncrash + 1
  /\ file' = IF file = NoFile THEN NewFile ELSE file
  /\ reopened' = [op |-> thread[t].op, pc |-> thread[t].pc, writes |-> 0,
                  item |-> 0, drain |-> saved.drain, nget |-> Len(gotSeq),
                  fresh |-> TRUE]
  /\ _length' = HeaderLength(file')
  /\ _unfinished_tasks' = 0
  /\ _file_lock' = Free
  /\ _get_lock' = Free
  /\ _put_lock' = Free
  /\ _get_event' = FALSE
  /\ _put_event' = FALSE
  /\ thread' = [u \in Threads |-> Idle]
  /\ lastPeeked' = 0
  /\ Forget
  /\ UNCHANGED <<maxsize, nput, appended, removed, putDone, gotSeq, before, failed,
                 flush_limit, chunk_size, temp_file, copy, closed, tasks, legacy>>

\* copy(new_filename): shutil.copy2 of the file, and a PersistentQueue on the new
\* file, which reads its count from the header.  got: history, the values the
\* copy's gets returned.
CopyQueue(t) ==
  /\ At(t, "idle")
  /\ copy' = [file |-> file, length |-> HeaderLength(file), got |-> <<>>]
  /\ saved' = Saved("copy")
  /\ UNCHANGED <<file, mem, locks, events, thread, history, flush_limit, chunk_size,
                 temp_file, closed, tasks, legacy>>

\* get(block=False) on the queue copy() returned, when it returns an item.
CopyGet(t) ==
  /\ At(t, "idle")
  /\ copy.file # NoFile
  /\ ~IsEmpty(copy.length)
  /\ \E r \in {ReadRecord(copy.file, _get_queue_top(copy.file))} :
       /\ r.ok
       /\ copy' = [file |-> After(copy.file, GetWrites(copy.file, r.next, copy.length), 2),
                   length |-> copy.length - 1,
                   got |-> Append(copy.got, r.item)]
  /\ UNCHANGED <<file, mem, locks, events, thread, history, flush_limit, chunk_size,
                 temp_file, closed, saved, tasks, legacy>>

\* One thread calling put, get, peek (without blocking), delete, clear and flush
\* on an unbounded queue, puts that raise included.
InitOps ==
  /\ InitQueue
  /\ maxsize = 0
  /\ flush_limit \in {0, FlushLimitArg}
  /\ chunk_size \in {SmallChunk, CHUNK_SIZE}
NoWait(t) == ~thread'[t].block
OpCall(t) == DeleteCall(t) \/ ClearCall(t) \/ FlushCall(t)
OpStep(t) ==
  \/ DeleteCheck(t) \/ DeleteLock(t) \/ DeleteFile(t)
  \/ ClearLock(t) \/ ClearFile(t)
  \/ FlushCheck(t) \/ FlushLock(t) \/ FlushCopy(t) \/ FlushRemove(t) \/ FlushRename(t)
others == <<flush_limit, chunk_size, temp_file, copy, closed, tasks, legacy>>
NextOps ==
  /\ \/ Call(1) /\ NoWait(1) /\ UNCHANGED ext
     \/ (Step(1) \/ PutFail(1)) /\ UNCHANGED ext
     \/ Finish(1) /\ Forget /\ UNCHANGED others
     \/ OpCall(1) \/ OpStep(1)
  /\ Track
SpecOps == InitOps /\ [][NextOps]_vars

\* One thread calling put, get and peek (without blocking), copy, and get on the
\* copy.
\* One thread, and kills of the process inside flush.
NextFlush ==
  /\ \/ Call(1) /\ NoWait(1) /\ UNCHANGED ext
     \/ Step(1) /\ UNCHANGED ext
     \/ Finish(1) /\ Forget /\ UNCHANGED others
     \/ FlushCall(1) \/ FlushCheck(1) \/ FlushLock(1) \/ FlushCopy(1) \/ FlushRemove(1)
     \/ FlushRename(1)
     \/ FlushKill(1)
  /\ Track
SpecFlush == InitOps /\ [][NextFlush]_vars

\* ------------------------------------------------------------- close
\* close() is not in persistent_queue.py (its tests call it); it is modelled
\* from the specification's section on the lifecycle: close is idempotent,
\* releases the file handle and leaves the file; after close all mutating
\* operations and blocking reads fail with "closed"; blocked waiters in get,
\* peek and put are woken and raise "closed", not Empty or Full.

\* close() is called.
CloseCall(t) ==
  /\ At(t, "idle")
  /\ Begin(t, [Idle EXCEPT !.pc = "close_file", !.op = "close"])
  /\ saved' = IF closed THEN [saved EXCEPT !.op = "close_again"]
              ELSE [Saved("close") EXCEPT !.file = NoFile]
  /\ UNCHANGED <<file, mem, locks, events, nput, appended, removed, putDone, gotSeq,
                 before, failed, lastPeeked, ncrash, flush_limit, chunk_size,
                 temp_file, copy, closed, tasks, legacy>>

\* close: the queue is marked closed and the waiters are woken; on a closed queue
\* nothing happens.
Close(t) ==
  /\ At(t, "close_file")
  /\ closed' = TRUE
  /\ IF closed
     THEN UNCHANGED events
     ELSE _get_event' = TRUE /\ _put_event' = TRUE
  /\ End(t, "ok")
  /\ UNCHANGED <<file, mem, locks, history, flush_limit, chunk_size, temp_file, copy,
                 saved, tasks, legacy>>

\* Thread t is at the entry of an operation, before its first step.
Entry(t) ==
  thread[t].pc \in {"put_lock", "get_lock", "peek_lock", "delete_check",
                    "clear_file", "flush_check"}
\* Thread t waits for an event inside put, get or peek.
Waiting(t) == thread[t].pc \in {"put_wait", "peek_wait"}
\* Thread t may go on as on an open queue: an operation that has passed its entry
\* and does not wait runs to its end.
Open(t) == ~(closed /\ (Entry(t) \/ Waiting(t)))

\* An operation entered on a closed queue raises the closed error.
ClosedRaiseM(t) ==
  /\ closed
  /\ Entry(t)
  /\ End(t, IF thread[t].op = "put" THEN "Closed" ELSE "Empty")
  /\ UNCHANGED <<file, mem, locks, events, history, ext>>
ClosedRaise(t) ==
  /\ closed
  /\ Entry(t)
  /\ End(t, "Closed")
  /\ UNCHANGED <<file, mem, locks, events, history, ext>>

\* A waiter woken by close leaves its with block and raises the closed error.
WakeClosedM(t) ==
  /\ closed
  /\ Waiting(t)
  /\ thread[t].timeout
  /\ IF At(t, "put_wait")
     THEN _put_lock' = Release(_put_lock) /\ UNCHANGED _get_lock
     ELSE _get_lock' = Free /\ UNCHANGED _put_lock
  /\ End(t, "Closed")
  /\ UNCHANGED <<file, mem, _file_lock, events, history, ext>>
WakeClosed(t) ==
  /\ closed
  /\ Waiting(t)
  /\ IF At(t, "put_wait")
     THEN _put_lock' = Release(_put_lock) /\ UNCHANGED _get_lock
     ELSE _get_lock' = Free /\ UNCHANGED _put_lock
  /\ End(t, "Closed")
  /\ UNCHANGED <<file, mem, _file_lock, events, history, ext>>

\* A new PersistentQueue is constructed on the path of the closed queue:
\* _open_file opens the existing file with 'r+b', __init__ reads the count from
\* the header, locks, events and unfinished tasks start afresh.
ReopenM(t) ==
  /\ At(t, "idle")
  /\ closed
  /\ closed' = FALSE
  /\ file' = NewFile
  /\ reopened' = [op |-> "close", pc |-> "idle", writes |-> 0, item |-> 0,
                  drain |-> saved.drain, nget |-> Len(gotSeq), fresh |-> TRUE]
  /\ _length' = HeaderLength(file')
  /\ _unfinished_tasks' = 0
  /\ _file_lock' = Free
  /\ _get_lock' = Free
  /\ _put_lock' = Free
  /\ _get_event' = FALSE
  /\ _put_event' = FALSE
  /\ thread' = [u \in Threads |-> Idle]
  /\ lastPeeked' = 0
  /\ UNCHANGED <<maxsize, nput, appended, removed, putDone, gotSeq, before, failed,
                 ncrash, flush_limit, chunk_size, temp_file, copy, saved, tasks, legacy>>
Reopen(t) ==
  /\ At(t, "idle")
  /\ closed
  /\ closed' = FALSE
  /\ file' = IF file = NoFile THEN NewFile ELSE file
  /\ reopened' = [op |-> "close", pc |-> "idle", writes |-> 0, item |-> 0,
                  drain |-> saved.drain, nget |-> Len(gotSeq), fresh |-> TRUE]
  /\ _length' = HeaderLength(file')
  /\ _unfinished_tasks' = 0
  /\ _file_lock' = Free
  /\ _get_lock' = Free
  /\ _put_lock' = Free
  /\ _get_event' = FALSE
  /\ _put_event' = FALSE
  /\ thread' = [u \in Threads |-> Idle]
  /\ lastPeeked' = 0
  /\ UNCHANGED <<maxsize, nput, appended, removed, putDone, gotSeq, before, failed,
                 ncrash, flush_limit, chunk_size, temp_file, copy, saved, tasks, legacy>>

\* One thread calling put, get and peek, close, every operation on the closed
\* queue, and opening the closed queue again.
NextClose ==
  /\ \/ Call(1) /\ (NoWait(1) \/ closed) /\ UNCHANGED ext
     \/ Step(1) /\ Open(1) /\ UNCHANGED ext
     \/ OpCall(1) /\ closed
     \/ Finish(1) /\ Forget /\ UNCHANGED others
     \/ CloseCall(1) \/ Close(1) \/ ClosedRaise(1) \/ Reopen(1)
  /\ Track
SpecClose == Init /\ [][NextClose]_vars

\* Producers call put and consumers get, as in SpecLive, and wait where these
\* wait; any of them closes the queue between two calls.  Every thread that can
\* take a step eventually takes one.
CloseStep(t) ==
  \/ (Step(t) \/ Wake(t)) /\ Open(t) /\ UNCHANGED ext
  \/ ClosedRaise(t)
  \/ WakeClosed(t)
  \/ Close(t)
NextCloseLive ==
  /\ \/ \E t \in Producers : (PutCall(t) \/ Finish(t)) /\ UNCHANGED ext
     \/ \E t \in Consumers : (GetCall(t) \/ Finish(t)) /\ UNCHANGED ext
     \/ \E t \in Threads : CloseCall(t) \/ CloseStep(t)
  /\ Track
ScheduledClose == \A t \in Threads : WF_vars(CloseStep(t) /\ Track)
SpecCloseLive == Init /\ [][NextCloseLive]_vars /\ ScheduledClose

InitCopy ==
  /\ InitQueue
  /\ maxsize = 0
  /\ flush_limit = FLUSH_LIMIT
  /\ chunk_size = CHUNK_SIZE
NextCopy ==
  /\ \/ Call(1) /\ NoWait(1) /\ UNCHANGED ext
     \/ (Step(1) \/ Finish(1)) /\ UNCHANGED ext
     \/ CopyQueue(1) \/ CopyGet(1)
  /\ Track
SpecCopy == InitCopy /\ [][NextCopy]_vars

\* ---------------------------------------------------- task_done, join
\* What task_done and join leave alone, besides the file and the locks of the file.
rest == <<flush_limit, chunk_size, temp_file, copy, closed, saved, legacy>>

\* task_done() is called.
TaskDoneCall(t) ==
  /\ At(t, "idle")
  /\ Begin(t, [Idle EXCEPT !.pc = "task_done", !.op = "task_done"])
  /\ UNCHANGED <<file, mem, locks, events, nput, appended, removed, putDone, gotSeq,
                 before, failed, lastPeeked, ncrash, ext>>

\* task_done: with self._all_tasks_done: unfinished = self._unfinished_tasks - 1;
\* if unfinished < 0: raise ValueError
TaskDoneRead(t) ==
  /\ At(t, "task_done")
  /\ tasks.owner = 0
  /\ \E unfinished \in {_unfinished_tasks - 1} :
       IF unfinished < 0
       THEN /\ End(t, "ValueError")
            /\ UNCHANGED tasks
       ELSE /\ Set(t, [thread[t] EXCEPT !.pc = "task_done_set"])
            /\ tasks' = [tasks EXCEPT !.owner = t, !.unfinished[t] = unfinished]
  /\ UNCHANGED <<file, mem, locks, events, history, rest>>

\* task_done: if unfinished == 0: self._all_tasks_done.notify_all();
\* self._unfinished_tasks = unfinished; the condition's lock is released.  The
\* threads waiting in join are woken and test the counter again.
TaskDoneSet(t) ==
  /\ At(t, "task_done_set")
  /\ tasks.owner = t
  /\ _unfinished_tasks' = tasks.unfinished[t]
  /\ tasks' = [tasks EXCEPT !.owner = 0, !.unfinished[t] = 0, !.done = @ + 1]
  /\ thread' = [u \in Threads |->
       IF u = t THEN [thread[t] EXCEPT !.pc = "done", !.result = "ok"]
       ELSE IF tasks.unfinished[t] = 0 /\ thread[u].pc = "join_wait"
       THEN [thread[u] EXCEPT !.pc = "join_check"]
       ELSE thread[u]]
  /\ UNCHANGED <<file, _length, maxsize, locks, events, history, rest>>

\* join() is called.
JoinCall(t) ==
  /\ At(t, "idle")
  /\ Begin(t, [Idle EXCEPT !.pc = "join_check", !.op = "join"])
  /\ UNCHANGED <<file, mem, locks, events, nput, appended, removed, putDone, gotSeq,
                 before, failed, lastPeeked, ncrash, ext>>

\* join: with self._all_tasks_done: while self._unfinished_tasks:
\* self._all_tasks_done.wait() (which releases the condition's lock)
JoinCheck(t) ==
  /\ At(t, "join_check")
  /\ tasks.owner = 0
  /\ IF _unfinished_tasks = 0
     THEN End(t, "ok")
     ELSE Set(t, [thread[t] EXCEPT !.pc = "join_wait"])
  /\ UNCHANGED <<file, mem, locks, events, history, ext>>

TaskStep(t) == TaskDoneRead(t) \/ TaskDoneSet(t) \/ JoinCheck(t)

\* Thread 1 calls put (without blocking) and task_done, thread 2 task_done and
\* join, on an unbounded queue.
NextTasks ==
  /\ \/ (PutCall(1) /\ NoWait(1)) /\ UNCHANGED ext
     \/ \E t \in {1, 2} : (Step(t) \/ Finish(t)) /\ UNCHANGED ext
     \/ \E t \in {1, 2} : TaskDoneCall(t) \/ TaskStep(t)
     \/ JoinCall(2)
  /\ Track
SpecTasks == InitCopy /\ [][NextTasks]_vars

\* One thread doing the same.
NextTasksSeq ==
  /\ \/ (PutCall(1) /\ NoWait(1)) /\ UNCHANGED ext
     \/ (Step(1) \/ Finish(1)) /\ UNCHANGED ext
     \/ TaskDoneCall(1) \/ TaskStep(1)
     \/ JoinCall(1)
  /\ Track
SpecTasksSeq == InitCopy /\ [][NextTasksSeq]_vars

\* ------------------- persistent_queue/__init__.py: push, pop, delete(items)
\* count(): return self.length
count == legacy.length
\* How a call finds the queue.
Found == [file |-> legacy.file, length |-> count, drain |-> Drain(legacy.file)]
Called(op, items) == [legacy EXCEPT !.op = op, !.items = items, !.found = Found,
                                    !.result = "ok", !.data = 0]

\* total_items = self.count() if items > self.count() else items
total_itemsM(items) == items
total_items(items) == IF items > count THEN count ELSE items

\* delete's read_length, k times from cursor pos: the length field read, the
\* payload skipped by a relative seek; the cursor reached, -1 where struct.unpack
\* raises on a short read.
RECURSIVE read_length(_, _, _)
read_length(f, pos, k) ==
  IF k <= 0 THEN pos
  ELSE LET length == Unpack32(ReadAt(f, pos, 4))
       IN IF length < 0 THEN -1 ELSE read_length(f, pos + 4 + length, k - 1)

\* push(item): under file_lock, the record written at the end of the file, then
\* self._update_length(self.count() + 1).
push ==
  /\ legacy.npush < MaxPuts
  /\ \E item \in {legacy.npush + 1} :
       legacy' = [Called("push", 1) EXCEPT
                    !.file = After(legacy.file, PutWrites(legacy.file, dumps(item), count), 3),
                    !.length = count + 1,
                    !.npush = item]

\* pop(): _peek reads total_items records at the head (one, or none on an empty
\* queue, which returns None); then self._set_queue_top(queue_top) and, if an
\* item was read, self._update_length(self.count() - 1).
pop ==
  \E top \in {_get_queue_top(legacy.file)} :
    \E r \in {ReadRecord(legacy.file, top)} :
      legacy' =
        IF total_items(1) = 0
        THEN [Called("pop", 1) EXCEPT !.file = _set_queue_top(legacy.file, top)]
        ELSE IF ~r.ok
        THEN [Called("pop", 1) EXCEPT !.result = "Error"]
        ELSE [Called("pop", 1) EXCEPT
                !.file = After(legacy.file, GetWrites(legacy.file, r.next, count), 2),
                !.length = count - 1,
                !.data = r.item]

\* delete(items): if items == 0: return; under file_lock and pop_lock: seek to
\* the head, skip total_items records, self._set_queue_top(self.file.tell()),
\* self._update_length(self.count() - total_items).
delete(items) ==
  \E pos \in {read_length(legacy.file, _get_queue_top(legacy.file), total_items(items))} :
    legacy' =
      IF items = 0
      THEN Called("delete", items)
      ELSE IF pos < 0 \/ count - total_items(items) < 0
      THEN [Called("delete", items) EXCEPT !.result = "Error"]
      ELSE [Called("delete", items) EXCEPT
              !.file = WriteLength(_set_queue_top(legacy.file, pos),
                                   count - total_items(items)),
              !.length = count - total_items(items)]

\* One thread calling push, pop and delete(items) with items up to one more than
\* the queue can hold.
MaxItems == MaxPuts + 1
queue == <<file, _length, maxsize, _unfinished_tasks, _file_lock, _get_lock,
           _put_lock, _get_event, _put_event, thread, nput, appended, removed,
           putDone, gotSeq, before, failed, snap, lastPeeked, ncrash, reopened,
           flush_limit, chunk_size, temp_file, copy, closed, saved, tasks>>
NextLegacy ==
  /\ \/ push
     \/ pop
     \/ \E items \in 0..MaxItems : delete(items)
  /\ UNCHANGED queue
SpecLegacy == Init /\ [][NextLegacy]_vars

\* ------------------------------------------- qsize, empty, full, len
\* qsize(): return self._length
qsize == _length
\* empty(): return self._length == 0
empty == _length = 0
\* full(): return self.maxsize > 0 and self._length >= self.maxsize
fullM == maxsize > 0 /\ _length > maxsize
full == maxsize > 0 /\ _length >= maxsize
\* __len__(): return self._length
__len__ == _length

\* One thread calling put, get, peek (without blocking), delete, clear and flush
\* on a queue with or without a limit, puts that raise included.
InitSizes ==
  /\ InitQueue
  /\ flush_limit \in {0, FlushLimitArg}
  /\ chunk_size = SmallChunk
SpecSizes == InitSizes /\ [][NextOps]_vars

\* ------------------------------------------------------ lock order
\* A consumer thread calling get, blocking or not, beside a thread calling put
\* (without blocking), delete, clear and flush on an unbounded queue that every
\* flush compacts.
InitLocks ==
  /\ InitQueue
  /\ maxsize = 0
  /\ flush_limit = 0
  /\ chunk_size = CHUNK_SIZE
PutSteps(t) ==
  \/ PutCall(t) /\ NoWait(t)
  \/ PutLock(t) \/ PutCheck(t) \/ PutFile(t) \/ PutTasks(t) \/ PutReturn(t)
NextLocks ==
  /\ \/ \E t \in Consumers : Consume(t) /\ UNCHANGED ext
     \/ \E t \in Producers : PutSteps(t) /\ UNCHANGED ext
     \/ \E t \in Producers : Finish(t) /\ Forget /\ UNCHANGED others
     \/ \E t \in Producers : OpCall(t) \/ OpStep(t)
  /\ Track
SpecLocks == InitLocks /\ [][NextLocks]_vars

\* ------------------------------------------------- kills beside delete
\* One thread calling put and get (without blocking) and delete, with kills of
\* the process followed by a reopen.
NextTorn ==
  /\ \/ (PutCall(1) \/ GetCall(1)) /\ NoWait(1) /\ UNCHANGED ext
     \/ (Step(1) \/ Crash(1)) /\ UNCHANGED ext
     \/ Finish(1) /\ UNCHANGED ext
     \/ DeleteCall(1) \/ DeleteCheck(1) \/ DeleteLock(1) \/ DeleteFile(1)
  /\ Track
SpecTorn == Init /\ [][NextTorn]_vars

\* ------------------------------------------- a limit, delete and clear
\* Producer threads calling put, blocking or not, beside consumer threads
\* calling get, blocking or not, delete and clear.
Remove(t) ==
  \/ DeleteCall(t) \/ DeleteCheck(t) \/ DeleteLock(t) \/ DeleteFile(t)
  \/ ClearCall(t) \/ ClearLock(t) \/ ClearFile(t)
NextBound ==
  /\ \/ \E t \in Producers : Produce(t) /\ UNCHANGED ext
     \/ \E t \in Consumers : Consume(t) /\ UNCHANGED ext
     \/ \E t \in Consumers : Remove(t)
  /\ Track
SpecBound == Init /\ [][NextBound]_vars

\* The same threads, each scheduled again and again: a thread that can take a
\* step of its call, or can wake from its wait, eventually does.
BoundStep(t) ==
  \/ Step(t) /\ UNCHANGED ext
  \/ Wake(t) /\ UNCHANGED ext
  \/ DeleteCheck(t) \/ DeleteLock(t) \/ DeleteFile(t) \/ ClearLock(t) \/ ClearFile(t)
ScheduledBound == \A t \in Threads : WF_vars(BoundStep(t) /\ Track)
SpecBoundLive == Init /\ [][NextBound]_vars /\ ScheduledBound

\* ------------------------------------------------------------- claims
Done(t) == thread[t].pc = "done"
Returned(t, op) == Done(t) /\ thread[t].op = op /\ thread[t].result = "ok"
IsPrefix(s, u) == Len(s) <= Len(u) /\ s = SubSeq(u, 1, Len(s))
\* s and u agree wherever both have an element.
Agree(s, u) == \A i \in 1..Min(Len(s), Len(u)) : s[i] = u[i]

\* C1: one thread, puts then gets: the gets return the values of the returned puts
\* in insertion order; between calls len() is the number of returned puts minus
\* the number of returned gets; get(block=False) raises Empty exactly when it
\* finds the queue empty, and otherwise returns the next value.
C1_SingleThreadFifo ==
  /\ IsPrefix(gotSeq, putDone)
  /\ thread[1].pc \in {"idle", "done"} => _length = Len(putDone) - Len(gotSeq)
  /\ (Done(1) /\ thread[1].op = "get" /\ ~thread[1].block) =>
       /\ thread[1].result \in {"ok", "Empty"}
       /\ thread[1].result = "Empty" <=> snap[1].limit
       /\ thread[1].result = "Empty" => Len(gotSeq) = Len(putDone) /\ _length = 0
       /\ thread[1].result = "ok" => thread[1].item = putDone[Len(gotSeq)]

\* MaxPuts puts returned, MaxPuts gets returned them, one more get(block=False)
\* raised Empty.
C1_Witness ==
  /\ Len(putDone) = MaxPuts
  /\ gotSeq = putDone
  /\ Done(1) /\ thread[1].op = "get" /\ ~thread[1].block
  /\ thread[1].result = "Empty"

\* C2: with threads interleaved, if put(a) returned before put(b) began then every
\* get that returns b comes after a get that returned a, and the values the gets
\* return are in the order in which their puts were appended and returned.
C2_ConcurrentOrder ==
  /\ \A j \in 1..Len(gotSeq) : \A a \in before[gotSeq[j]] :
       \E i \in 1..(j - 1) : gotSeq[i] = a
  /\ \A i, j \in 1..Len(gotSeq) : \A k, l \in 1..Len(putDone) :
       (putDone[k] = gotSeq[i] /\ putDone[l] = gotSeq[j] /\ k < l) => i < j
  /\ IsPrefix(gotSeq, appended)

\* Two threads produced, put(a) returned before put(b) began, both were dequeued.
C2_Witness ==
  /\ Len(gotSeq) >= 2
  /\ gotSeq[1] \in before[gotSeq[2]]
  /\ \E t \in Threads : Returned(t, "get") /\ thread[t].item = gotSeq[2]
  /\ \E t \in Threads : thread[t].op = "put"

\* C3: a get() with block=True and no timeout that finds the queue empty does not
\* raise: when it ends it returns an item.
C3_BlockingGetReturns ==
  \A t \in Threads :
    (Done(t) /\ thread[t].op = "get" /\ thread[t].block /\ ~thread[t].timeout
       /\ snap[t].limit)
      => thread[t].result = "ok"

\* C4: a put waiting on a full bounded queue goes on only once the queue is no
\* longer full (a get removed an item); the record it appends comes after all
\* pending items; once an item was removed, a waiting put without timeout
\* eventually returns.
C4_WakeStep ==
  \A t \in Threads :
    /\ (At(t, "put_wait") /\ thread'[t].pc = "put_file") =>
         /\ maxsize > 0 /\ _length < maxsize
         /\ removed > 0
    /\ (At(t, "put_wait") /\ thread'[t].pc = "done") =>
         thread'[t].result = "Full" /\ thread[t].timeout
    /\ (At(t, "put_file") /\ thread'[t].pc = "put_tasks") =>
         /\ Drain(file') = Append(Drain(file), thread[t].item)
         /\ maxsize > 0 => _length' <= maxsize
C4_Eventually ==
  \A t \in Threads :
    (At(t, "put_wait") /\ ~thread[t].timeout /\ ~IsFull(maxsize, _length))
      ~> Returned(t, "put")
C4_BlockedPut == [][C4_WakeStep]_vars /\ C4_Eventually

\* A put that waited has returned, a get of the other thread had removed an item,
\* and the put's item is the last pending one.
C4_Witness ==
  \E t \in Threads :
    /\ Returned(t, "put")
    /\ snap[t].limit /\ snap[t].other
    /\ removed > 0
    /\ _length = maxsize
    /\ Drain(file)[_length] = thread[t].item

\* C5: a put that finds a bounded queue full, with block=False or with a timeout
\* during which no other thread's get acts, raises Full, and no step of it
\* changes file (count, head offset, records), count or unfinished tasks;
\* gets completed before the call make no difference.
C5_FullUnchanged ==
  \A t \in Threads :
    (Done(t) /\ thread[t].op = "put" /\ snap[t].limit /\ ~snap[t].other
       /\ (~thread[t].block \/ thread[t].timeout))
      => thread[t].result = "Full" /\ ~snap[t].self

\* A put with a timeout raised Full on a queue that is full again after a get.
C5_Witness ==
  \E t \in Threads :
    /\ Done(t) /\ thread[t].op = "put" /\ thread[t].result = "Full"
    /\ thread[t].block /\ thread[t].timeout
    /\ snap[t].limit /\ ~snap[t].other
    /\ Len(gotSeq) > 0
    /\ _length = maxsize

\* C6: a get or peek that finds the queue empty, with block=False or with a
\* timeout during which no other thread's put acts, raises Empty, and no step
\* of it changes file, count or unfinished tasks; puts completed and consumed
\* before the call make no difference.
C6_EmptyUnchanged ==
  \A t \in Threads :
    (Done(t) /\ thread[t].op \in {"get", "peek"} /\ snap[t].limit /\ ~snap[t].other
       /\ (~thread[t].block \/ thread[t].timeout))
      => thread[t].result = "Empty" /\ ~snap[t].self

\* A peek with a timeout raised Empty after an item was put and consumed.
C6_Witness ==
  \E t \in Threads :
    /\ Done(t) /\ thread[t].op = "peek" /\ thread[t].result = "Empty"
    /\ thread[t].block /\ thread[t].timeout
    /\ snap[t].limit /\ ~snap[t].other
    /\ Len(gotSeq) > 0 /\ Len(gotSeq) = Len(putDone)

\* C7: no step of a peek changes file, count or unfinished tasks; the value a peek
\* returned is the oldest pending item for as long as no get removes it, and
\* the get that removes it returns it.
C7_PeekIdempotent ==
  /\ \A t \in Threads : thread[t].op = "peek" => ~snap[t].self
  /\ lastPeeked # 0 =>
       /\ removed < Len(appended)
       /\ lastPeeked = appended[removed + 1]
       /\ _length >= 1
  /\ \A t \in Threads :
       At(t, "get_file") /\ lastPeeked # 0 => thread[t].item = lastPeeked
  /\ \A t \in Threads : At(t, "get_set") => thread[t].item = appended[removed]

\* A peek returned the head while a second item was pending, and a get is about to
\* remove the same value.
C7_Witness ==
  \E t, u \in Threads :
    /\ Returned(t, "peek") /\ thread[t].block
    /\ At(u, "get_file") /\ thread[u].item = thread[t].item
    /\ lastPeeked = thread[t].item
    /\ removed >= 1
    /\ _length >= 2

\* C8: the process is killed once, inside a put, no get has removed anything, and
\* the file is reopened: the count is k or k + 1 for k the number of puts that
\* returned, and the first k values a reader gets are those puts' values in order.
C8_KilledPut ==
  (reopened.fresh /\ reopened.op = "put" /\ ncrash = 1 /\ removed = 0
     /\ _get_queue_top(file) = START_OFFSET)
    => LET k == Len(putDone)
       IN /\ _length \in {k, k + 1}
          /\ SubSeq(Drain(file), 1, k) = putDone

\* C9: no get or peek returns the item of a put that raised or was killed before
\* it raised the count.
C9_FailedPutInvisible ==
  \A t \in Threads :
    (Returned(t, "get") \/ Returned(t, "peek")) => thread[t].item \notin failed

\* The items a fresh reader gets before its first raising get.
Good(d) == IF Len(d) > 0 /\ d[Len(d)] = BadItem THEN SubSeq(d, 1, Len(d) - 1) ELSE d

\* C10: the process is killed when a get has read the head record and has written
\* nothing; after the reopen the gets return that record first and then the
\* records that were behind it, in order.
C10_Redelivery ==
  (reopened.op = "get" /\ reopened.pc = "get_file" /\ reopened.writes = 0) =>
    LET after == SubSeq(gotSeq, reopened.nget + 1, Len(gotSeq))
    IN /\ Len(reopened.drain) >= 1
       /\ reopened.drain[1] = reopened.item
       /\ Len(after) >= 1 => after[1] = reopened.item
       /\ Agree(after, Good(reopened.drain))

\* Killed in a get with two items pending; after the reopen two gets returned the
\* item of the killed get and the one behind it.
C10_Witness ==
  /\ reopened.op = "get" /\ reopened.pc = "get_file" /\ reopened.writes = 0
  /\ Len(reopened.drain) >= 2
  /\ Len(gotSeq) >= reopened.nget + 2
  /\ gotSeq[reopened.nget + 1] = reopened.item
  /\ Returned(1, "get")

\* A legal queue file: from the header's head offset there are exactly the
\* header's count records, each read whole and decoded.
Legal(f) ==
  LET d == Drain(f)
  IN Len(d) = HeaderLength(f) /\ \A i \in 1..Len(d) : d[i] # BadItem

\* C11: after a kill at any point of a put or a get (no put having failed
\* before), the file is a legal queue file: a reopened queue can get count items.
C11_CrashLegal ==
  (reopened.fresh /\ failed = {}) => Legal(file)

\* The offset reached by walking n records from top.
RECURSIVE WalkFrom(_, _, _)
WalkFrom(f, top, n) ==
  IF n <= 0 THEN top ELSE WalkFrom(f, ReadRecord(f, top).next, n - 1)
WalkEnd(f) == WalkFrom(f, _get_queue_top(f), HeaderLength(f))

\* C12: when a put or a get has returned, whatever calls came before (also calls
\* that raised), the count in the file's header is the count in memory, and
\* walking count records from the head offset ends at the end of the file.
C12_HeaderMatches ==
  \A t \in Threads :
    (ncrash = 0 /\ (Returned(t, "put") \/ Returned(t, "get"))) =>
      /\ HeaderLength(file) = _length
      /\ WalkEnd(file) = Len(file)

\* The values the gets returned since the last flush, clear, copy or close.
GotSince == SubSeq(gotSeq, saved.nget + 1, Len(gotSeq))
\* Only gets have removed items since then.
OnlyGetsSince == removed - saved.removed = Len(gotSeq) - saved.nget

\* C13: a flush that found the head offset at or above flush_limit has returned:
\* the head offset is START_OFFSET, the file is the header followed by the
\* bytes that were live, whatever their number is against the chunk size, the
\* count is unchanged, and the gets that follow return the values that were
\* pending, in order.
C13_FlushCompacts ==
  /\ (Returned(1, "flush") /\ saved.head >= flush_limit) =>
       LET live == SubSeq(saved.file, saved.head + 1, Len(saved.file))
       IN /\ _get_queue_top(file) = START_OFFSET
          /\ Len(file) = START_OFFSET + Len(live)
          /\ SubSeq(file, START_OFFSET + 1, Len(file)) = live
          /\ _length = saved.length
          /\ HeaderLength(file) = saved.length
          /\ Drain(file) = saved.drain
          /\ temp_file = NoFile
  /\ (saved.op = "flush" /\ OnlyGetsSince) => Agree(GotSince, Good(saved.drain))

\* A flush with the small chunk size compacted a file with a dead prefix and at
\* least two pending records (several chunks), and a get after it returned the first.
C13_Witness ==
  /\ saved.op = "flush" /\ saved.head >= flush_limit /\ saved.head > START_OFFSET
  /\ chunk_size = SmallChunk
  /\ Len(saved.drain) >= 2
  /\ OnlyGetsSince
  /\ Returned(1, "get") /\ Len(GotSince) = 1 /\ thread[1].item = saved.drain[1]

C15_FlushKillSafe ==
  (reopened.fresh /\ reopened.op = "flush") =>
    /\ _length = saved.length
    /\ Drain(file) = saved.drain

\* C16: clear has returned: the count is 0 in memory and in the header, the head
\* offset is START_OFFSET and the file is the header alone; until a put returns,
\* a non-blocking get or peek raises Empty; when one put has returned since, and
\* nothing else has written, len() is 1 and peek returns the value put.
C16_Clear ==
  /\ Returned(1, "clear") =>
       /\ _length = 0
       /\ HeaderLength(file) = 0
       /\ _get_queue_top(file) = START_OFFSET
       /\ Len(file) = START_OFFSET
  /\ (saved.op = "clear" /\ Len(putDone) = saved.nput /\ Done(1)
      /\ thread[1].op \in {"get", "peek"}) => thread[1].result = "Empty"
  /\ (saved.op = "clear" /\ Len(putDone) = saved.nput + 1 /\ removed = 0
      /\ Cardinality(failed) = saved.nfailed /\ thread[1].pc \in {"idle", "done"}
      /\ ~(Done(1) /\ thread[1].op = "put" /\ thread[1].result # "ok")) =>
       /\ _length = 1
       /\ Drain(file) = <<putDone[Len(putDone)]>>
       /\ Returned(1, "peek") => thread[1].item = putDone[Len(putDone)]

\* clear emptied a queue with a dead prefix and a pending item, a put followed and
\* a peek returned its value.
C16_Witness ==
  /\ saved.op = "clear" /\ saved.length >= 1 /\ saved.head > START_OFFSET
  /\ Len(putDone) = saved.nput + 1 /\ removed = 0
  /\ Cardinality(failed) = saved.nfailed
  /\ Returned(1, "peek") /\ thread[1].item = putDone[Len(putDone)]
  /\ _length = 1

\* C17: a copy was taken: its len() was the origin's, its gets return the values
\* that were pending in the origin, in order, the same values the origin's own
\* gets return after the copy, and neither copy() nor a get of the copy changes
\* the origin's file or count.
C17_CopyState ==
  (copy.file # NoFile /\ saved.op = "copy") =>
    /\ copy.length + Len(copy.got) = saved.length
    /\ HeaderLength(copy.file) = copy.length
    /\ IsPrefix(copy.got, saved.drain)
    /\ Agree(copy.got, GotSince)
    /\ Drain(copy.file) = SubSeq(saved.drain, Len(copy.got) + 1, Len(saved.drain))
C17_Copy ==
  /\ []C17_CopyState
  /\ [][(copy' # copy) => UNCHANGED <<file, _length, _unfinished_tasks>>]_vars

\* A copy was taken of a queue with a dead prefix and two pending items; the copy
\* and the origin have each returned the first of them since.
C17_Witness ==
  /\ copy.file # NoFile /\ saved.op = "copy"
  /\ saved.head > START_OFFSET /\ saved.length >= 2
  /\ Len(copy.got) >= 1 /\ Len(GotSince) >= 1
  /\ copy.got[1] = GotSince[1]
  /\ Returned(1, "get")

\* C18: a queue was closed and a new queue opened on its path: count, head offset
\* and pending items are those at the close, and the gets of the new queue return
\* the values that were pending, in order.
C18_CloseReopen ==
  /\ (reopened.fresh /\ reopened.op = "close" /\ saved.op \in {"close", "close_again"}) =>
       /\ _length = saved.length
       /\ HeaderLength(file) = saved.length
       /\ _get_queue_top(file) = saved.head
       /\ Drain(file) = saved.drain
  /\ (reopened.op = "close" /\ saved.op \in {"close", "close_again"} /\ ~closed) =>
       /\ IsPrefix(GotSince, saved.drain \o SubSeq(putDone, saved.nput + 1, Len(putDone)))
       /\ At(1, "idle") =>
            _length = saved.length + (Len(putDone) - saved.nput) - Len(GotSince)

\* A queue with a dead prefix and two pending items was closed and opened again,
\* and the new queue's gets have returned both items.
C18_Witness ==
  /\ reopened.op = "close" /\ saved.op = "close" /\ ~closed
  /\ saved.head > START_OFFSET /\ saved.length = 2
  /\ Len(GotSince) = 2 /\ GotSince = saved.drain
  /\ Returned(1, "get")
  /\ _length = 0

\* C19: on a closed queue, close returns and changes nothing, every other
\* operation (put, get, peek, delete, clear, flush, blocking or not) raises the
\* closed error, and the file and the count are as they were at the close.
C19_Closed ==
  /\ (closed /\ Done(1) /\ thread[1].op # "close") =>
       thread[1].result = "Closed" /\ ~snap[1].self
  /\ (Done(1) /\ thread[1].op = "close") =>
       thread[1].result = "ok" /\ closed /\ ~snap[1].self
  /\ (closed /\ saved.op \in {"close", "close_again"}) =>
       /\ HeaderLength(file) = saved.length
       /\ _get_queue_top(file) = saved.head
       /\ Drain(file) = saved.drain
       /\ _length = saved.length

\* A put on a closed queue that holds an item has raised the closed error, after
\* close was called a second time.
C19_Witness ==
  /\ closed /\ saved.op = "close_again" /\ saved.length >= 1
  /\ Done(1) /\ thread[1].op = "put" /\ thread[1].result = "Closed"

\* C20: a thread that waits in put, get or peek when the queue is closed leaves
\* the wait only by raising the closed error, and it eventually does.
C20_WakeStep ==
  \A t \in Threads :
    (Waiting(t) /\ closed /\ thread'[t] # thread[t]) =>
      thread'[t].pc = "done" /\ thread'[t].result = "Closed"
C20_Eventually ==
  \A t \in Threads :
    (Waiting(t) /\ closed) ~> (Done(t) /\ thread[t].result = "Closed")
C20_WaiterWoken == [][C20_WakeStep]_vars /\ C20_Eventually

\* A thread waits without timeout, in put on a full queue, and the close of the
\* other thread has returned.
C20_Witness ==
  \E t \in Threads :
    /\ At(t, "put_wait") /\ ~thread[t].timeout
    /\ maxsize > 0 /\ _length = maxsize
    /\ closed /\ \E u \in Threads \ {t} : Returned(u, "close")

\* The puts that have raised self._unfinished_tasks.
Added == Len(appended) - Cardinality({t \in Threads : At(t, "put_tasks")})

\* C21: join returns only when task_done has returned once for every put that has
\* returned; a task_done beyond that raises and leaves the counter at 0; the
\* counter is never negative.
C21_Step ==
  \A t \in Threads :
    /\ (At(t, "join_check") /\ thread'[t].pc = "done") => tasks.done >= Len(putDone)
    /\ (At(t, "task_done") /\ thread'[t].pc = "done") =>
         /\ thread'[t].result = "ValueError"
         /\ tasks.done >= Len(putDone)
         /\ _unfinished_tasks' = 0
    /\ (At(t, "task_done") /\ thread'[t].pc = "task_done_set") => tasks.done < Added
C21_JoinTaskDone == [](_unfinished_tasks >= 0) /\ [][C21_Step]_vars

\* C26: the counter is the number of puts that have raised it minus the number
\* of task_done calls that have returned.
C26_NoLostUpdate == _unfinished_tasks = Added - tasks.done

\* C22: delete() on a queue that is not empty removes exactly the oldest
\* item and returns nothing: the count falls by one, the items a drain returns
\* are the former ones without the first, and no item is handed to the caller;
\* delete() on an empty queue returns with the count 0 and the file untouched.
C22_Step ==
  \A t \in Threads :
    /\ (At(t, "delete_get_lock") /\ thread'[t].pc = "done") =>
         /\ thread'[t].result = "ok"
         /\ _length' = _length - 1
         /\ HeaderLength(file') = _length'
         /\ Drain(file') = Tail(Drain(file))
         /\ gotSeq' = gotSeq
    /\ (At(t, "delete_check") /\ thread'[t].pc = "done") =>
         /\ thread'[t].result = "ok"
         /\ _length' = 0
         /\ file' = file
C22_Delete == [][C22_Step]_vars
C22_Witness ==
  /\ thread[1].op = "delete" /\ thread[1].pc = "done" /\ thread[1].result = "ok"
  /\ removed = 1 /\ gotSeq = <<>> /\ failed = {}
  /\ Drain(file) = <<2>>

\* C23: delete(items) of persistent_queue/__init__.py removes min(items, count)
\* items from the head: it raises nothing, the count falls by that number, the
\* items a drain returns are the former ones without that many first ones (so the
\* next pop returns the one after them); with items above the count the count is
\* 0 and the head offset is the end of the file; with items 0 nothing changes.
C23_DeleteItems ==
  legacy.op = "delete" =>
    LET n == legacy.items
        c == legacy.found.length
        k == Min(n, c)
    IN /\ legacy.result = "ok"
       /\ count = c - k
       /\ HeaderLength(legacy.file) = c - k
       /\ Drain(legacy.file) = SubSeq(legacy.found.drain, k + 1, c)
       /\ Len(legacy.file) = Len(legacy.found.file)
       /\ n > c => (count = 0 /\ _get_queue_top(legacy.file) = Len(legacy.file))
       /\ n = 0 => legacy.file = legacy.found.file
C23_Witness ==
  /\ legacy.op = "delete"
  /\ legacy.found.length = 2
  /\ legacy.items > 2
  /\ _get_queue_top(legacy.found.file) > START_OFFSET

\* C24: between the calls of one thread, qsize() and len() are the number of
\* items that repeated gets would return, each of them an item; empty() is true
\* exactly when that number is 0; full() is true exactly when the queue has a
\* limit and that number has reached it, and never for a queue without limit.
Between == \A t \in Threads : At(t, "idle") \/ Done(t)
C24_Getters ==
  Between =>
    LET pending == Drain(file)
    IN /\ \A i \in 1..Len(pending) : pending[i] # BadItem
       /\ qsize = Len(pending)
       /\ __len__ = Len(pending)
       /\ empty <=> Len(pending) = 0
       /\ full <=> (maxsize > 0 /\ Len(pending) >= maxsize)
       /\ maxsize = 0 => ~full
C24_Witness ==
  /\ Between
  /\ maxsize = 2 /\ Len(Drain(file)) = 2
  /\ full /\ ~empty
  /\ removed >= 1

\* C25: a thread that requests the get lock or the put lock does not hold the file
\* lock: the consumer's or producer's lock is taken first, the file lock second.
Requests(t) ==
  thread[t].pc \in {"put_lock", "get_lock", "peek_lock",
                    "delete_get_lock", "clear_get_lock", "flush_get_lock"}
C25_LockOrder == \A t \in Threads : Requests(t) => _file_lock.owner # t

\* C30: no thread holds the file lock and waits for the get lock while the
\* holder of the get lock waits, without timeout, for a put event that only a put
\* passing the file lock could set.
WaitsForPut(c) ==
  /\ At(c, "peek_wait") /\ ~thread[c].timeout
  /\ _get_lock.owner = c
  /\ ~_put_event
  /\ \A u \in Threads : ~At(u, "put_set")
C30_NoDeadlock ==
  \A c, d \in Threads :
    ~(/\ WaitsForPut(c)
      /\ _file_lock.owner = d
      /\ thread[d].pc \in {"delete_get_lock", "clear_get_lock", "flush_get_lock"})

\* C27: put calls dumps while the calling thread holds the put lock, and neither
\* the file lock nor the get lock.
Encodes(t) ==
  /\ thread[t].pc \in {"put_check", "put_wait"}
  /\ thread'[t].pc = "put_file"
  /\ thread'[t].data = dumps(thread[t].item)
C27_Step ==
  \A t \in Threads :
    Encodes(t) => (_put_lock.owner = t /\ _file_lock.owner # t /\ _get_lock.owner # t)
C27_DumpsUnderPutLock == [][C27_Step]_vars
C27_Witness ==
  \E t \in Threads :
    /\ At(t, "put_file") /\ thread[t].data = dumps(thread[t].item)
    /\ _put_lock.owner = t
    /\ \E u \in Threads \ {t} : _file_lock.owner = u
\* C27 as stated: put calls dumps while the calling thread holds none of the
\* queue's locks.
C27_NoLockStep ==
  \A t \in Threads :
    Encodes(t) => (_put_lock.owner # t /\ _file_lock.owner # t /\ _get_lock.owner # t)
C27_DumpsNoLock == [][C27_NoLockStep]_vars

\* C28: whenever the file exists, the head offset in its header is at least
\* START_OFFSET and at most the size of the file.
C28_HeadInFile ==
  file # NoFile =>
    /\ START_OFFSET <= _get_queue_top(file)
    /\ _get_queue_top(file) <= Len(file)

\* C29: a get or peek that goes on after its wait on the put event finds an item:
\* the count is at least 1 and the head offset is below the size of the file.
C29_Step ==
  \A t \in Threads :
    (At(t, "peek_wait") /\ thread'[t].pc = "peek_file") =>
      (_length' >= 1 /\ _get_queue_top(file') < Len(file'))
C29_WakeFindsItem == [][C29_Step]_vars

\* C31: on a queue with a limit the count, in memory and in the file, never
\* exceeds the limit, and every put that appends, released from a wait or not,
\* appends to a queue that is not full.
C31_Step ==
  \A t \in Threads :
    (maxsize > 0 /\ At(t, "put_file") /\ thread'[t].pc = "put_tasks") =>
      (_length < maxsize /\ _length' <= maxsize)
C31_Bounded ==
  /\ [](maxsize > 0 => (_length <= maxsize /\ HeaderLength(file) <= maxsize))
  /\ [][C31_Step]_vars
C31_Witness ==
  \E t \in Threads :
    /\ Returned(t, "put") /\ thread[t].block
    /\ snap[t].limit
    /\ _length = maxsize
    /\ \E u \in Threads \ {t} : Returned(u, "delete") \/ Returned(u, "clear")

\* C32: a delete that runs beside another thread's get or delete never reads a
\* record header at the end of the file, never raises and never makes the count
\* negative.
C32_Step ==
  \A t \in Threads :
    (At(t, "delete_get_lock") /\ thread'[t].pc = "done") =>
      /\ _get_queue_top(file) < Len(file)
      /\ thread'[t].result = "ok"
      /\ _length' >= 0
C32_DeleteRace == [][C32_Step]_vars

\* C33: with producers and consumers interleaved, no item is returned by two
\* gets, no item is passed over (the gets return the appended items from the
\* first on), every item whose put returned was returned by a get or is still
\* pending, and when no call is running the count is the number of puts that
\* returned less the number of gets that returned.
InSeq(x, q) == \E i \in 1..Len(q) : q[i] = x
C33_ExactlyOnce ==
  /\ \A i, j \in 1..Len(gotSeq) : i # j => gotSeq[i] # gotSeq[j]
  /\ gotSeq = SubSeq(appended, 1, Len(gotSeq))
  /\ Len(gotSeq) <= removed
  /\ \A k \in 1..Len(putDone) :
       InSeq(putDone[k], gotSeq) \/ InSeq(putDone[k], Drain(file))
       \/ \E t \in Threads : thread[t].pc = "get_set" /\ thread[t].item = putDone[k]
  /\ Between =>
       /\ _length = Len(putDone) - Len(gotSeq)
       /\ Drain(file) = SubSeq(appended, Len(gotSeq) + 1, Len(appended))
C33_Witness ==
  /\ Between
  /\ Len(putDone) = 3 /\ Len(gotSeq) = 2 /\ _length = 1
  /\ \E t \in Threads :
       /\ Returned(t, "get") /\ snap[t].other
       /\ \E u \in Threads \ {t} : Returned(u, "put")

\* C34: a put waiting without timeout on a queue that is no longer full, whether
\* a get, a delete or a clear made the room, eventually returns.
C34_FreedWakes ==
  \A t \in Threads :
    (At(t, "put_wait") /\ ~thread[t].timeout /\ ~IsFull(maxsize, _length))
      ~> Returned(t, "put")
====
